---------------------------- MODULE Spec2Model ----------------------------
(***************************************************************************)
(* atlasgen (src/src/main.cpp): one run of main(), from argument parsing   *)
(* to the two output files.  The font (charmap and glyph metrics), the     *)
(* --range arguments, every rasterizer / image-encoder / file-system       *)
(* failure and the placement chosen by the rectangle packer are inputs.    *)
(***************************************************************************)
EXTENDS Integers, Sequences, FiniteSets, TLC

\* ------------------------------------------------------------------ bounds
MaxCp == 2            \* codepoints of the font and of --range: 0..MaxCp
MaxGlyph == 1         \* glyph indices of the font: 0..MaxGlyph
MaxRanges == 1        \* number of --range arguments
MaxCanvas == 64       \* the growth loop is followed while targetW, targetH < MaxCanvas

\* ------------------------------------------------------- program constants
RECT_PAD == 1         \* main.cpp:259
NoRect == -1          \* (size_t)-1, main.cpp:270
FracBits == 6         \* the ">> 6" of main.cpp:423

Codepoints == 0..MaxCp
GlyphIds == 0..MaxGlyph

Max(a, b) == IF a > b THEN a ELSE b

\* x >> n on a signed 64-bit value (arithmetic shift: floor division)
Shr(x, n) == x \div (2 ^ n)

\* (int)sqrt(n): the largest r with r*r <= n
ISqrt(n) == CHOOSE r \in 0..n : r * r <= n /\ (r + 1) * (r + 1) > n

\* ---------------------------------------------------------- the rasterizer
\* Metrics FT_Load_Glyph may report for a glyph (bitmap.width, bitmap.rows,
\* bitmap_left, bitmap_top, advance.x in 26.6 fixed point).
Space == [width |-> 0, height |-> 0, leftBearing |-> 0, topBearing |-> 0, advance |-> 350]
Ink == [width |-> 13, height |-> 13, leftBearing |-> 1, topBearing |-> 12, advance |-> 902]
Wide == [width |-> 26, height |-> 12, leftBearing |-> -1, topBearing |-> 11, advance |-> 1664]
Shapes == {Space, Ink, Wide}

\* The fonts of the model: a glyph is empty (as a space is) or inked, with the
\* metrics of its outline.
Outline(g) == IF g % 2 = 0 THEN Ink ELSE Wide

VARIABLES
    charmap,        \* the font: codepoint -> glyph index (0 = unmapped)
    metrics,        \* the font: glyph index -> metrics
    argRanges,      \* the --range arguments, in command-line order
    pc,             \* position of main()
    ftLib,          \* FT_Library handle: "open" | "released"
    ftFace,         \* FT_Face handle: "none" | "open" | "released"
    cpRanges,       \* std::vector<std::pair<uint32_t,uint32_t>> cpRanges
    glyphs,         \* std::map<FT_UInt, GlyphData> glyphs
    rects,          \* std::vector<stbrp_rect> rects
    totalW, totalH,
    targetW, targetH,
    rpNodes,        \* rpNodes.size()
    atlasW, atlasH,
    blits,          \* regions of atlasBmp the compositor wrote
    pngFile,        \* atlas.png: "absent" | "complete"
    mapFile,        \* map.json:  "absent" | "partial" | "complete"
    glyphIdToJsonId, \* std::unordered_map<FT_UInt, size_t> glyphIdToJsonId
    glyphsOut,      \* tokens written between "glyphs":[ and ]
    codepointsOut   \* tokens written between "codepoints":[ and ]

vars == <<charmap, metrics, argRanges, pc, ftLib, ftFace, cpRanges, glyphs, rects,
          totalW, totalH, targetW, targetH, rpNodes, atlasW, atlasH, blits,
          pngFile, mapFile, glyphIdToJsonId, glyphsOut, codepointsOut>>

font == <<charmap, metrics, argRanges>>
collected == <<glyphs, rects, totalW, totalH>>
packer == <<targetW, targetH, rpNodes, atlasW, atlasH>>
files == <<pngFile, mapFile, glyphIdToJsonId, glyphsOut, codepointsOut>>

\* FT_Get_Char_Index(face, cp)
GetCharIndex(cp) == IF cp \in DOMAIN charmap THEN charmap[cp] ELSE 0

MappedCps == {c \in Codepoints : charmap[c] # 0}

SetMin(S) == CHOOSE m \in S : \A x \in S : m <= x

\* FT_Get_First_Char(face, &gindex): the first mapped character code, 0 when
\* the charmap is empty (the result is also 0 when codepoint 0 is mapped).
GetFirstChar == IF MappedCps = {} THEN 0 ELSE SetMin(MappedCps)

\* FT_Get_Next_Char(face, c, &gindex): the next mapped code after c, 0 at the end
GetNextChar(c) ==
    LET later == {d \in MappedCps : d > c}
    IN  IF later = {} THEN 0 ELSE SetMin(later)

\* ------------------------------------------------------------------- Init
\* --range first last, accepted by the check of main.cpp:160
ValidPairs == {p \in Codepoints \X Codepoints : ~(p[1] >= p[2])}

RangeLists == UNION {[1..n -> ValidPairs] : n \in 0..MaxRanges}

Init ==
    /\ charmap \in [Codepoints -> GlyphIds]
    /\ metrics \in {m \in [GlyphIds -> Shapes] : \A g \in GlyphIds : m[g] \in {Space, Outline(g)}}
    /\ argRanges \in RangeLists
    /\ pc = "args"
    /\ ftLib = "open"
    /\ ftFace = "none"
    /\ cpRanges = <<>>
    /\ glyphs = <<>>
    /\ rects = <<>>
    /\ totalW = 0 /\ totalH = 0
    /\ targetW = 0 /\ targetH = 0
    /\ rpNodes = 0
    /\ atlasW = 0 /\ atlasH = 0
    /\ blits = <<>>
    /\ pngFile = "absent"
    /\ mapFile = "absent"
    /\ glyphIdToJsonId = <<>>
    /\ glyphsOut = <<>>
    /\ codepointsOut = <<>>

\* ------------------------------------------------------------ ways to end
\* "return -1" / "return 0": the defer blocks of main.cpp:122 and :188 run
ReturnFromMain(how) ==
    /\ pc' = how
    /\ ftFace' = IF ftFace = "open" THEN "released" ELSE ftFace
    /\ ftLib' = "released"

\* CheckFtErr on an error: exit(-1), which runs no destructor of main's frame
ExitProcess ==
    /\ pc' = "exited"
    /\ UNCHANGED <<ftLib, ftFace>>

Terminal == pc \in {"done", "returned", "exited", "crashed"}

\* --------------------------------------------------------- argument parsing
ParseArgs ==
    /\ pc = "args"
    /\ \/ /\ pc' = "newface"
          /\ cpRanges' = argRanges
          /\ UNCHANGED <<ftLib, ftFace>>
       \/ /\ ReturnFromMain("returned")    \* a malformed or missing argument
          /\ UNCHANGED cpRanges
    /\ UNCHANGED <<font, collected, packer, blits, files>>

NewFace ==
    /\ pc = "newface"
    /\ \/ /\ pc' = "setsize"
          /\ ftFace' = "open"
          /\ UNCHANGED ftLib
       \/ ExitProcess
    /\ UNCHANGED <<font, cpRanges, collected, packer, blits, files>>

SetPixelSizes ==
    /\ pc = "setsize"
    /\ \/ /\ pc' = "axes"
          /\ UNCHANGED <<ftLib, ftFace>>
       \/ ExitProcess
    /\ UNCHANGED <<font, cpRanges, collected, packer, blits, files>>

SetAxes ==
    /\ pc = "axes"
    /\ \/ /\ pc' = "ranges"                \* no --axis, or coordinates set
          /\ UNCHANGED <<ftLib, ftFace>>
       \/ ReturnFromMain("returned")       \* no axes / out of range / unknown axis
       \/ ExitProcess                      \* FT_Get_MM_Var, FT_Set_Var_Design_Coordinates
    /\ UNCHANGED <<font, cpRanges, collected, packer, blits, files>>

\* ------------------------------------------------------------ range resolver
RECURSIVE DiscoverFrom(_, _, _)
\* the while loop of main.cpp:244-252
DiscoverFrom(firstChar, lastChar, acc) ==
    LET nextChar == GetNextChar(lastChar)
    IN  IF nextChar = 0
        THEN Append(acc, <<firstChar, lastChar>>)
        ELSE IF nextChar # lastChar + 1
             THEN DiscoverFrom(nextChar, nextChar, Append(acc, <<firstChar, lastChar>>))
             ELSE DiscoverFrom(firstChar, nextChar, acc)

NoCharmap == GetFirstChar = 0

Discover == DiscoverFrom(GetFirstChar, GetFirstChar, <<>>)

ResolveRanges ==
    /\ pc = "ranges"
    /\ IF cpRanges # <<>>
       THEN /\ pc' = "collect"
            /\ UNCHANGED <<cpRanges, ftLib, ftFace>>
       ELSE IF NoCharmap
            THEN /\ ReturnFromMain("returned")
                 /\ UNCHANGED cpRanges
            ELSE /\ pc' = "collect"
                 /\ cpRanges' = Discover
                 /\ UNCHANGED <<ftLib, ftFace>>
    /\ UNCHANGED <<font, collected, packer, blits, files>>

\* ----------------------------------------------------------- glyph collector
RangeCps(r) == [i \in 1..(r[2] - r[1] + 1) |-> r[1] + i - 1]

RECURSIVE Flatten(_)
\* "for (auto range : cpRanges) for (cp = range.first; cp <= range.second; ++cp)"
Flatten(rs) == IF rs = <<>> THEN <<>> ELSE RangeCps(Head(rs)) \o Flatten(Tail(rs))

\* rect.w = glyph.width + RECT_PAD*2, rect.h = glyph.height + RECT_PAD*2, x = y = 0
PaddedRect(m) == [x |-> 0, y |-> 0, w |-> m.width + RECT_PAD * 2, h |-> m.height + RECT_PAD * 2]

NewRectIndexOffByOne(rs) == Len(rs) + 1

\* glyph.rectIndex = rects.size()-1, taken after the push_back onto rs
NewRectIndex(rs) == Len(rs)

GlyphRecord(g, rectIndex) ==
    [rectIndex |-> rectIndex, glyphIndex |-> g,
     width |-> metrics[g].width, height |-> metrics[g].height,
     leftBearing |-> metrics[g].leftBearing, topBearing |-> metrics[g].topBearing,
     advance |-> metrics[g].advance]

\* one iteration of the inner loop of main.cpp:261-288
CollectStep(st, cp) ==
    LET g == GetCharIndex(cp)
        m == metrics[g]
    IN  IF g \in DOMAIN st.glyphs
        THEN st
        ELSE IF m.width * m.height # 0
             THEN [glyphs |-> (g :> GlyphRecord(g, NewRectIndex(st.rects))) @@ st.glyphs,
                   rects |-> Append(st.rects, PaddedRect(m)),
                   totalW |-> st.totalW + m.width,
                   totalH |-> st.totalH + m.height]
             ELSE [st EXCEPT !.glyphs = (g :> GlyphRecord(g, NoRect)) @@ st.glyphs]

RECURSIVE CollectFrom(_, _, _)
CollectFrom(cps, k, st) ==
    IF k > Len(cps) THEN st ELSE CollectFrom(cps, k + 1, CollectStep(st, cps[k]))

CollectAll(ranges) ==
    CollectFrom(Flatten(ranges), 1, [glyphs |-> <<>>, rects |-> <<>>, totalW |-> 0, totalH |-> 0])

Collect ==
    /\ pc = "collect"
    /\ \/ LET st == CollectAll(cpRanges)
          IN  /\ glyphs' = st.glyphs
              /\ rects' = st.rects
              /\ totalW' = st.totalW
              /\ totalH' = st.totalH
              /\ pc' = "packinit"
              /\ UNCHANGED <<ftLib, ftFace>>
       \/ /\ ExitProcess                   \* FT_Load_Glyph failed
          /\ UNCHANGED collected
    /\ UNCHANGED <<font, cpRanges, packer, blits, files>>

\* -------------------------------------------------------------------- packer
\* targetW *= RP_GROWTH with RP_GROWTH = 1.2f, stored back into an int:
\* (int)(t * 1.2f) = floor(6t/5) for every t the model reaches
Grow(t) == (t * 6) \div 5

PackInit ==
    /\ pc = "packinit"
    /\ targetW' = ISqrt(totalW)
    /\ targetH' = ISqrt(totalH)
    /\ rpNodes' = ISqrt(totalW) * 2
    /\ pc' = "pack"
    /\ UNCHANGED <<font, ftLib, ftFace, cpRanges, collected, atlasW, atlasH, blits, files>>

RECURSIVE ShelfFrom(_, _, _, _, _, _, _, _)
\* rs[p[k]], rs[p[k+1]], ... laid out left to right in rows; b[k] starts a new row
ShelfFrom(rs, p, b, k, curX, curY, rowH, acc) ==
    IF k > Len(rs) THEN acc
    ELSE LET r == rs[p[k]]
             newRow == k > 1 /\ b[k]
             x == IF newRow THEN 0 ELSE curX
             y == IF newRow THEN curY + rowH ELSE curY
             rh == IF newRow THEN r.h ELSE Max(rowH, r.h)
         IN  ShelfFrom(rs, p, b, k + 1, x + r.w, y, rh, [acc EXCEPT ![p[k]] = <<x, y>>])

\* stbrp_pack_rects is a third-party primitive: it places the rectangles without
\* overlap inside the canvas, or reports failure.  Its possible results are
\* modelled by every row layout of the rectangles that fits the canvas, and it
\* reports failure when none fits.
ShelfLayouts(rs) ==
    LET n == Len(rs)
        perms == {p \in [1..n -> 1..n] : \A i, j \in 1..n : p[i] = p[j] => i = j}
        breaks == [1..n -> BOOLEAN]
    IN  {ShelfFrom(rs, p, b, 1, 0, 0, 0, [i \in 1..n |-> <<0, 0>>]) : p \in perms, b \in breaks}

Fits(rs, pos, W, H) ==
    \A i \in 1..Len(rs) : pos[i][1] + rs[i].w <= W /\ pos[i][2] + rs[i].h <= H

\* no layout fits a canvas narrower or lower than one of the rectangles
FittingLayouts(rs, W, H) ==
    IF \E i \in 1..Len(rs) : rs[i].w > W \/ rs[i].h > H
    THEN {}
    ELSE {pos \in ShelfLayouts(rs) : Fits(rs, pos, W, H)}

PackSucceed ==
    /\ pc = "pack"
    /\ \E pos \in FittingLayouts(rects, targetW, targetH) :
          rects' = [i \in 1..Len(rects) |-> [rects[i] EXCEPT !.x = pos[i][1], !.y = pos[i][2]]]
    /\ pc' = "bbox"
    /\ UNCHANGED <<font, ftLib, ftFace, cpRanges, glyphs, totalW, totalH, packer, blits, files>>

PackGrow ==
    /\ pc = "pack"
    /\ FittingLayouts(rects, targetW, targetH) = {}
    /\ targetW < MaxCanvas /\ targetH < MaxCanvas
    /\ targetW' = Grow(targetW)
    /\ targetH' = Grow(targetH)
    /\ rpNodes' = Grow(targetW)
    /\ UNCHANGED <<font, pc, ftLib, ftFace, cpRanges, collected, atlasW, atlasH, blits, files>>

\* no rectangle at all: rpNodes is empty and stbrp_init_target writes nodes[0]
PackNoNodes ==
    /\ pc = "pack"
    /\ rpNodes = 0
    /\ pc' = "crashed"
    /\ UNCHANGED <<font, ftLib, ftFace, cpRanges, collected, packer, blits, files>>

RECURSIVE ExtentFrom(_, _, _, _)
\* the loop of main.cpp:309-314, from the current atlasW, atlasH
ExtentFrom(rs, k, w, h) ==
    IF k > Len(rs) THEN <<w, h>>
    ELSE ExtentFrom(rs, k + 1,
                    IF rs[k].x + rs[k].w > w THEN rs[k].x + rs[k].w ELSE w,
                    IF rs[k].y + rs[k].h > h THEN rs[k].y + rs[k].h ELSE h)

RECURSIVE ExtentOriginsFrom(_, _, _, _)
ExtentOriginsFrom(rs, k, w, h) ==
    IF k > Len(rs) THEN <<w, h>>
    ELSE ExtentOriginsFrom(rs, k + 1,
                           IF rs[k].x > w THEN rs[k].x ELSE w,
                           IF rs[k].y > h THEN rs[k].y ELSE h)

AtlasExtentOrigins(rs, w0, h0) == ExtentOriginsFrom(rs, 1, w0, h0)

AtlasExtent(rs, w0, h0) == ExtentFrom(rs, 1, w0, h0)

BoundingBox ==
    /\ pc = "bbox"
    /\ atlasW' = AtlasExtent(rects, atlasW, atlasH)[1]
    /\ atlasH' = AtlasExtent(rects, atlasW, atlasH)[2]
    /\ pc' = "composite"
    /\ UNCHANGED <<font, ftLib, ftFace, cpRanges, collected, targetW, targetH, rpNodes, blits, files>>

\* ---------------------------------------------------------------- compositor
RECURSIVE SortSet(_)
\* iteration order of std::map<FT_UInt, GlyphData>: increasing glyph index
SortSet(S) == IF S = {} THEN <<>> ELSE <<SetMin(S)>> \o SortSet(S \ {SetMin(S)})

GlyphOrder == SortSet(DOMAIN glyphs)

UnpadOriginOnly(r) == [r EXCEPT !.x = @ + RECT_PAD, !.y = @ + RECT_PAD]

\* "Remove padding", main.cpp:336-337
Unpad(r) ==
    [r EXCEPT !.x = @ + RECT_PAD, !.y = @ + RECT_PAD,
              !.w = @ - RECT_PAD * 2, !.h = @ - RECT_PAD * 2]

\* rects after the loop of main.cpp:323-378: each rect a glyph refers to is un-padded
UnpaddedRects ==
    [i \in 1..Len(rects) |->
        IF \E g \in DOMAIN glyphs : glyphs[g].rectIndex = i - 1
        THEN Unpad(rects[i]) ELSE rects[i]]

RECURSIVE BlitsFrom(_, _, _)
\* the pixels written for each glyph with a rect: bitmap.width x bitmap.rows
\* pixels of the re-loaded glyph, from (rect.x, rect.y) of the un-padded rect
BlitsFrom(order, k, acc) ==
    IF k > Len(order) THEN acc
    ELSE LET glyph == glyphs[order[k]]
         IN  IF glyph.rectIndex = NoRect
             THEN BlitsFrom(order, k + 1, acc)
             ELSE LET rect == Unpad(rects[glyph.rectIndex + 1])
                  IN  BlitsFrom(order, k + 1,
                                Append(acc, [glyphIndex |-> glyph.glyphIndex,
                                             x |-> rect.x, y |-> rect.y,
                                             w |-> metrics[glyph.glyphIndex].width,
                                             h |-> metrics[glyph.glyphIndex].height]))

Composite ==
    /\ pc = "composite"
    /\ \/ /\ rects' = UnpaddedRects
          /\ blits' = BlitsFrom(GlyphOrder, 1, <<>>)
          /\ pc' = "writepng"
          /\ UNCHANGED <<ftLib, ftFace>>
       \/ /\ rects # <<>>                  \* FT_Load_Glyph / FT_Render_Glyph failed
          /\ ExitProcess
          /\ UNCHANGED <<rects, blits>>
       \/ /\ rects # <<>>                  \* unsupported or unknown FT_Pixel_Mode
          /\ ReturnFromMain("returned")
          /\ UNCHANGED <<rects, blits>>
    /\ UNCHANGED <<font, cpRanges, glyphs, totalW, totalH, packer, files>>

\* --------------------------------------------------------------- output files
WritePng ==
    /\ pc = "writepng"
    /\ \/ /\ pngFile' = "complete"
          /\ pc' = "openmap"
          /\ UNCHANGED <<ftLib, ftFace>>
       \/ /\ ReturnFromMain("returned")    \* png_image_write_to_file failed
          /\ UNCHANGED pngFile
    /\ UNCHANGED <<font, cpRanges, collected, packer, blits,
                   mapFile, glyphIdToJsonId, glyphsOut, codepointsOut>>

OpenMap ==
    /\ pc = "openmap"
    /\ \/ /\ mapFile' = "partial"          \* opened and truncated, nothing closed yet
          /\ pc' = "encglyphs"
          /\ UNCHANGED <<ftLib, ftFace>>
       \/ /\ ReturnFromMain("returned")    \* !f.is_open()
          /\ UNCHANGED mapFile
    /\ UNCHANGED <<font, cpRanges, collected, packer, blits,
                   pngFile, glyphIdToJsonId, glyphsOut, codepointsOut>>

\* -------------------------------------------------------------------- encoder
Num(n) == [t |-> "num", v |-> n]
Comma == [t |-> "comma", v |-> 0]

NoGlyph == [rectIndex |-> 0, glyphIndex |-> 0, width |-> 0, height |-> 0,
            leftBearing |-> 0, topBearing |-> 0, advance |-> 0]

\* the seven numbers of one glyph, main.cpp:419-430
GlyphTokens(glyph, prevGlyph, rectX, rectY, prevRectX, prevRectY) ==
    << Num(glyph.width - prevGlyph.width), Comma,
       Num(glyph.height - prevGlyph.height), Comma,
       Num(glyph.leftBearing - prevGlyph.leftBearing), Comma,
       Num(glyph.topBearing - prevGlyph.topBearing), Comma,
       Num(Shr(glyph.advance - prevGlyph.advance, FracBits)), Comma,
       Num(rectX - prevRectX), Comma,
       Num(rectY - prevRectY) >>

RECURSIVE EncodeGlyphsFrom(_, _, _, _, _, _)
\* the loop of main.cpp:413-435; nextJsonId = k - 1
EncodeGlyphsFrom(order, k, prevGlyph, prevRectX, prevRectY, st) ==
    IF k > Len(order) THEN st
    ELSE LET glyph == glyphs[order[k]]
             nextJsonId == k - 1
             hasRect == glyph.rectIndex # NoRect
             rectX == IF hasRect THEN rects[glyph.rectIndex + 1].x ELSE 0
             rectY == IF hasRect THEN rects[glyph.rectIndex + 1].y ELSE 0
             sep == IF nextJsonId # 0 THEN <<Comma>> ELSE <<>>
         IN  EncodeGlyphsFrom(order, k + 1, glyph, rectX, rectY,
                 [ids |-> (glyph.glyphIndex :> nextJsonId) @@ st.ids,
                  out |-> st.out \o sep
                          \o GlyphTokens(glyph, prevGlyph, rectX, rectY, prevRectX, prevRectY)])

EncodedGlyphs == EncodeGlyphsFrom(GlyphOrder, 1, NoGlyph, 0, 0, [ids |-> <<>>, out |-> <<>>])

EncodeGlyphs ==
    /\ pc = "encglyphs"
    /\ glyphIdToJsonId' = EncodedGlyphs.ids
    /\ glyphsOut' = EncodedGlyphs.out
    /\ pc' = "enccodepoints"
    /\ UNCHANGED <<font, ftLib, ftFace, cpRanges, collected, packer, blits,
                   pngFile, mapFile, codepointsOut>>

\* glyphIdToJsonId[glyphIndex]: operator[] yields 0 for a missing key
JsonIdOf(g) == IF g \in DOMAIN glyphIdToJsonId THEN glyphIdToJsonId[g] ELSE 0

RECURSIVE EncodeCodepointsFrom(_, _, _, _, _)
\* the loops of main.cpp:443-457; the counter i = k - 1 advances on every
\* codepoint, the skipped ones included ("continue" runs ++cp, ++i)
EncodeCodepointsFrom(cps, k, lastCp, lastGlyphJsonId, out) ==
    IF k > Len(cps) THEN out
    ELSE LET cp == cps[k]
             i == k - 1
             glyphIndex == GetCharIndex(cp)
             glyphJsonId == JsonIdOf(glyphIndex)
             sep == IF i # 0 THEN <<Comma>> ELSE <<>>
         IN  IF glyphIndex = 0
             THEN EncodeCodepointsFrom(cps, k + 1, lastCp, lastGlyphJsonId, out)
             ELSE EncodeCodepointsFrom(cps, k + 1, cp, glyphJsonId,
                      out \o sep \o <<Num(cp - lastCp), Comma, Num(glyphJsonId - lastGlyphJsonId)>>)

EncodedCodepoints == EncodeCodepointsFrom(Flatten(cpRanges), 1, 0, 0, <<>>)

EncodeCodepoints ==
    /\ pc = "enccodepoints"
    /\ codepointsOut' = EncodedCodepoints
    /\ pc' = "metrics"
    /\ UNCHANGED <<font, ftLib, ftFace, cpRanges, collected, packer, blits,
                   pngFile, mapFile, glyphIdToJsonId, glyphsOut>>

\* the metrics object, f.close() and "return 0", main.cpp:459-470
Close ==
    /\ pc = "metrics"
    /\ mapFile' = "complete"
    /\ ReturnFromMain("done")
    /\ UNCHANGED <<font, cpRanges, collected, packer, blits,
                   pngFile, glyphIdToJsonId, glyphsOut, codepointsOut>>

Next ==
    \/ ParseArgs
    \/ NewFace
    \/ SetPixelSizes
    \/ SetAxes
    \/ ResolveRanges
    \/ Collect
    \/ PackInit
    \/ PackSucceed
    \/ PackGrow
    \/ PackNoNodes
    \/ BoundingBox
    \/ Composite
    \/ WritePng
    \/ OpenMap
    \/ EncodeGlyphs
    \/ EncodeCodepoints
    \/ Close

Spec == Init /\ [][Next]_vars

\* ------------------------------------------------- reading the arrays back
\* A JSON array of numbers: empty, or numbers separated by single commas
WellFormed(toks) ==
    \/ toks = <<>>
    \/ /\ Len(toks) % 2 = 1
       /\ \A i \in 1..Len(toks) : toks[i].t = (IF i % 2 = 1 THEN "num" ELSE "comma")

Numbers(toks) == [k \in 1..((Len(toks) + 1) \div 2) |-> toks[2 * k - 1].v]

RECURSIVE ColumnSum(_, _, _, _)
\* column c of entry k of an array of n-tuples: the sum of the deltas so far
ColumnSum(nums, n, c, k) ==
    IF k = 0 THEN 0 ELSE nums[(k - 1) * n + c] + ColumnSum(nums, n, c, k - 1)

\* "Each kind of value is delta-encoded" (README): the entries a consumer gets
Decode(toks, n) ==
    IF WellFormed(toks) /\ Len(Numbers(toks)) % n = 0
    THEN [ok |-> TRUE,
          rows |-> [k \in 1..(Len(Numbers(toks)) \div n) |->
                       [c \in 1..n |-> ColumnSum(Numbers(toks), n, c, k)]]]
    ELSE [ok |-> FALSE, rows |-> <<>>]

GlyphsWritten == pc \in {"enccodepoints", "metrics", "done"}
CodepointsWritten == pc \in {"metrics", "done"}
Collected == pc \in {"packinit", "pack", "bbox", "composite", "writepng", "openmap",
                     "encglyphs", "enccodepoints", "metrics", "done"}

Requested == Flatten(cpRanges)
RequestedSet == {Requested[k] : k \in 1..Len(Requested)}

\* 0-based position of glyph g among the entries of "glyphs"
PositionOf(g) == (CHOOSE k \in 1..Len(GlyphOrder) : GlyphOrder[k] = g) - 1

RectXOf(glyph) == IF glyph.rectIndex = NoRect THEN 0 ELSE rects[glyph.rectIndex + 1].x
RectYOf(glyph) == IF glyph.rectIndex = NoRect THEN 0 ELSE rects[glyph.rectIndex + 1].y

GlyphTuple(glyph) ==
    << glyph.width, glyph.height, glyph.leftBearing, glyph.topBearing,
       Shr(glyph.advance, FracBits), RectXOf(glyph), RectYOf(glyph) >>

\* ---------------------------------------------------------------------- C1
\* C1: summing the 7 columns of "glyphs" reconstructs, for every entry, the
\* tuple [width, height, leftBearing, topBearing, advance >> 6, rectX, rectY]
\* of the glyph at that position.
C1_GlyphsRoundTrip ==
    GlyphsWritten =>
        /\ Decode(glyphsOut, 7).ok
        /\ Decode(glyphsOut, 7).rows =
               [k \in 1..Len(GlyphOrder) |-> GlyphTuple(glyphs[GlyphOrder[k]])]

\* What the code does round-trip: every column but the advance.
C1_OtherColumnsRoundTrip ==
    GlyphsWritten =>
        /\ Decode(glyphsOut, 7).ok
        /\ Len(Decode(glyphsOut, 7).rows) = Len(GlyphOrder)
        /\ \A k \in 1..Len(GlyphOrder) : \A c \in {1, 2, 3, 4, 6, 7} :
               Decode(glyphsOut, 7).rows[k][c] = GlyphTuple(glyphs[GlyphOrder[k]])[c]

\* ---------------------------------------------------------------------- C2
SameGlyphPairs ==
    {ab \in RequestedSet \X RequestedSet :
        ab[1] # ab[2] /\ GetCharIndex(ab[1]) = GetCharIndex(ab[2]) /\ GetCharIndex(ab[1]) # 0}

HasPair(rows, cp, id) == \E k \in 1..Len(rows) : rows[k] = <<cp, id>>

\* C2: for requested codepoints a # b with the same non-zero glyph index g,
\* "glyphs" holds exactly one entry for g and both a and b appear in
\* "codepoints" with the decoded id that is g's 0-based position in "glyphs".
C2_Dedup ==
    CodepointsWritten =>
        \A ab \in SameGlyphPairs :
            LET g == GetCharIndex(ab[1])
            IN  /\ Cardinality({k \in 1..Len(GlyphOrder) : GlyphOrder[k] = g}) = 1
                /\ Decode(glyphsOut, 7).ok
                /\ Len(Decode(glyphsOut, 7).rows) = Len(GlyphOrder)
                /\ Decode(codepointsOut, 2).ok
                /\ HasPair(Decode(codepointsOut, 2).rows, ab[1], PositionOf(g))
                /\ HasPair(Decode(codepointsOut, 2).rows, ab[2], PositionOf(g))

\* ---------------------------------------------------------------------- C3
\* C3: in every terminal state either both output files are complete or
\* neither has been written.
C3_BothFilesOrNone ==
    Terminal =>
        \/ pngFile = "complete" /\ mapFile = "complete"
        \/ pngFile = "absent" /\ mapFile = "absent"

\* ---------------------------------------------------------------------- C4
IsMapped(cp) == GetCharIndex(cp) # 0

ExpectedPairs ==
    LET cps == SelectSeq(Requested, IsMapped)
    IN  [k \in 1..Len(cps) |-> <<cps[k], PositionOf(GetCharIndex(cps[k]))>>]

\* C4: the decoded "codepoints" array is exactly the list of (codepoint,
\* sequential glyph id) of the requested codepoints with a non-zero glyph index,
\* in range order then codepoint order; a glyph record for index 0 is present
\* in "glyphs" whenever some requested codepoint maps to 0.
C4_CodepointsDecoded ==
    CodepointsWritten =>
        /\ Decode(codepointsOut, 2).ok
        /\ Decode(codepointsOut, 2).rows = ExpectedPairs
        /\ (\E cp \in RequestedSet : GetCharIndex(cp) = 0) => 0 \in DOMAIN glyphs

\* ---------------------------------------------------------------------- C5
\* C5: each failed packing attempt strictly grows both canvas dimensions.
C5_FailedAttemptGrowsBoth ==
    [][(pc = "pack" /\ pc' = "pack") => (targetW' > targetW /\ targetH' > targetH)]_vars

\* ---------------------------------------------------------------------- C6
\* C6: on every exit path the library handle and the face handle are released
\* before the process terminates.
C6_HandlesReleased ==
    Terminal => ftLib = "released" /\ ftFace # "open"

\* ---------------------------------------------------------------------- C7
SetMax(S) == CHOOSE m \in S : \A x \in S : m >= x

\* C7: after a successful pack atlasW = max(rect.x + rect.w) and atlasH =
\* max(rect.y + rect.h) over the rectangles as placed, both at most the last
\* attempted canvas; after padding removal every glyph's region, and every
\* pixel the compositor writes, lies inside [0, atlasW) x [0, atlasH).
C7_TightBoundingBox ==
    /\ pc = "composite" =>
          /\ atlasW = SetMax({0} \cup {rects[i].x + rects[i].w : i \in 1..Len(rects)})
          /\ atlasH = SetMax({0} \cup {rects[i].y + rects[i].h : i \in 1..Len(rects)})
          /\ atlasW <= targetW
          /\ atlasH <= targetH
    /\ pc \in {"writepng", "openmap", "encglyphs", "enccodepoints", "metrics", "done"} =>
          /\ \A g \in DOMAIN glyphs :
                glyphs[g].rectIndex # NoRect =>
                    LET r == rects[glyphs[g].rectIndex + 1]
                    IN  /\ r.w = glyphs[g].width /\ r.h = glyphs[g].height
                        /\ 0 <= r.x /\ r.x + r.w <= atlasW
                        /\ 0 <= r.y /\ r.y + r.h <= atlasH
          /\ Len(blits) = Len(rects)
          /\ \A k \in 1..Len(blits) :
                /\ 0 <= blits[k].x /\ blits[k].x + blits[k].w <= atlasW
                /\ 0 <= blits[k].y /\ blits[k].y + blits[k].h <= atlasH

\* two glyphs composited into an atlas smaller than the canvas that was packed
C7_Witness ==
    /\ pc = "writepng"
    /\ Len(blits) >= 2
    /\ atlasW < targetW

\* ---------------------------------------------------------------------- C8
RangeSet(r) == {c \in Codepoints : r[1] <= c /\ c <= r[2]}

DiscoveredWell(ranges) ==
    /\ \A k \in 1..Len(ranges) : ranges[k][1] <= ranges[k][2]
    /\ \A k \in 1..(Len(ranges) - 1) : ranges[k][2] + 1 < ranges[k + 1][1]
    /\ UNION {RangeSet(ranges[k]) : k \in 1..Len(ranges)} = MappedCps

\* C8: with no explicit range, auto-discovery yields strictly increasing,
\* disjoint ranges separated by a gap whose union is the set of mapped
\* codepoints, and it reports "no charmap" exactly when no codepoint is mapped.
C8_AutoDiscovery ==
    [][(pc = "ranges" /\ cpRanges = <<>>) =>
          /\ (pc' = "returned") <=> (MappedCps = {})
          /\ (pc' = "collect") => DiscoveredWell(cpRanges')]_vars

\* ---------------------------------------------------------------------- C9
\* C9: "codepoints" is a well-formed comma-separated list of pairs: a comma
\* exactly between consecutive pairs, none before the first or after the last.
C9_CodepointCommas ==
    CodepointsWritten =>
        /\ WellFormed(codepointsOut)
        /\ Len(Numbers(codepointsOut)) = 2 * Len(SelectSeq(Requested, IsMapped))

\* --------------------------------------------------------------------- C10
NonEmptyGlyphs == {g \in DOMAIN glyphs : glyphs[g].width * glyphs[g].height # 0}

OneToOne ==
    /\ \A g \in DOMAIN glyphs : g \notin NonEmptyGlyphs => glyphs[g].rectIndex = NoRect
    /\ \A g \in NonEmptyGlyphs : glyphs[g].rectIndex \in 0..(Len(rects) - 1)
    /\ \A g1, g2 \in NonEmptyGlyphs : glyphs[g1].rectIndex = glyphs[g2].rectIndex => g1 = g2
    /\ Cardinality(NonEmptyGlyphs) = Len(rects)

\* position in the walk cps of the requested codepoints at which glyph g is first met
FirstUse(cps, g) == SetMin({k \in 1..Len(cps) : GetCharIndex(cps[k]) = g})

\* C10 (as claimed): rects are one-to-one with the non-empty glyphs and in
\* glyph-index order: g1 < g2 implies rectIndex(g1) < rectIndex(g2).
C10_RectOrderIsGlyphOrder ==
    Collected =>
        /\ OneToOne
        /\ \A g1, g2 \in NonEmptyGlyphs :
              g1 < g2 => glyphs[g1].rectIndex < glyphs[g2].rectIndex

\* C10 (amended): rects are one-to-one with the non-empty glyphs, in the order
\* in which the glyphs are first met while walking the requested codepoints.
C10_RectOrderIsFirstUseOrder ==
    Collected =>
        /\ OneToOne
        /\ LET cps == Requested
               first == [g \in NonEmptyGlyphs |-> FirstUse(cps, g)]
           IN  \A g1, g2 \in NonEmptyGlyphs :
                  glyphs[g1].rectIndex < glyphs[g2].rectIndex <=> first[g1] < first[g2]

\* two non-empty glyphs collected against their glyph-index order
C10_Witness ==
    /\ pc = "packinit"
    /\ \E g1, g2 \in NonEmptyGlyphs :
          g1 < g2 /\ glyphs[g1].rectIndex > glyphs[g2].rectIndex

=============================================================================
